---- MODULE Spec2Model ----
(***************************************************************************)
(* A model of ciphergen: the pronounceable-username generators             *)
(* (src/generators/username.rs), the command-line surface of the Markov    *)
(* subcommand (src/config.rs) and the Markov word-generation pipeline.     *)
(*                                                                         *)
(* Characters are modelled by their Unicode code points, byte strings by   *)
(* sequences of numbers below 256.                                         *)
(***************************************************************************)
EXTENDS Integers, Sequences, FiniteSets, TLC

(***************************************************************************)
(* Bounds of the model.                                                    *)
(***************************************************************************)
\* Largest `length` handed to generate_simple_username (characters).
MaxLength == 4
\* Largest `length` handed to generate_complex_username (syllables).
MaxSyllables == 2
\* How many elements of VOWELS / CONSONANTS the random source may pick
\* (the first NumPicks of each array).
NumPicks == 2

(***************************************************************************)
(* State.  Variables of the username generators:                           *)
(***************************************************************************)
VARIABLES
    upc,         \* position in the generator: "call", "check1", "loop", "done"
    fn,          \* which generator runs: "simple" or "complex" ("none": not called)
    capitalize,  \* argument capitalize: bool
    length,      \* argument length: usize
    start,       \* the coin flip of generate_simple_username
    index,       \* loop counter of the for loop
    output,      \* output: Vec<char>
    result       \* the returned Vec<u8>

uvars == <<upc, fn, capitalize, length, start, index, output, result>>

\* Variables of the command-line parser.
VARIABLES
    cpc,      \* "parsing", "accepted" or "rejected"
    passed,   \* the switches met on the command line so far
    matches,  \* field -> <<>> or <<value>>: the values parsed off the line
    config,   \* the parsed GenerateCommands::Markov (and Verbosity), once accepted
    cerror    \* the clap error kind, once rejected

cvars == <<cpc, passed, matches, config, cerror>>

\* Variables of the Markov subcommand.
VARIABLES
    mpc,       \* "validate", "load", "cache", "train", "store", "word", "emitted", "exit"
    mmin,      \* LengthRange::minimum
    mmax,      \* LengthRange::maximum
    mflags,    \* [no_cache, rebuild_cache, capitalize]
    mleft,     \* words still to generate (count)
    corpus,    \* the corpus source: "missing", "empty" or "ok"
    cache,     \* the cache entry on disk: "absent", "corrupt" or "valid"
    io,        \* the file I/O and training done so far, in order
    merror,    \* the error the command exits with, "none" if none
    word,      \* the word being generated
    retries,   \* the partial words discarded so far for this word
    forced,    \* the retry budget is spent: run to max
    lastWord   \* the word being written out

mvars == <<mpc, mmin, mmax, mflags, mleft, corpus, cache, io, merror,
           word, retries, forced, lastWord>>

vars == <<uvars, cvars, mvars>>

(***************************************************************************)
(* src/generators/username.rs: constants and helpers.                      *)
(***************************************************************************)
\* 'a', 'e', 'i', 'o', 'u', 'y'
VOWELS == <<97, 101, 105, 111, 117, 121>>

\* 'b' 'c' 'd' 'f' 'g' 'h' 'j' 'k' 'l' 'm' 'n' 'p' 'q' 'r' 's' 't' 'v' 'w' 'x' 'z'
CONSONANTS == <<98, 99, 100, 102, 103, 104, 106, 107, 108, 109,
                110, 112, 113, 114, 115, 116, 118, 119, 120, 122>>

Min2(a, b) == IF a < b THEN a ELSE b

\* slice.choose(rng): some element of the slice (here: one of the first NumPicks).
Choose(slice) == {slice[i] : i \in 1..Min2(NumPicks, Len(slice))}

choose_random_vowel == Choose(VOWELS)

choose_random_consonant == Choose(CONSONANTS)

\* char::make_ascii_uppercase
make_ascii_uppercase(c) == IF c >= 97 /\ c <= 122 THEN c - 32 ELSE c

\* output[0].make_ascii_uppercase() when capitalize is set
CapitalizeFirst(cap, out) ==
    IF cap THEN [out EXCEPT ![1] = make_ascii_uppercase(out[1])] ELSE out

\* The UTF-8 encoding of one char (code points below 0x800 suffice here).
Utf8(c) == IF c < 128 THEN <<c>> ELSE <<192 + (c \div 64), 128 + (c % 64)>>

RECURSIVE into_bytes(_)
\* output.iter().collect::<String>().into_bytes()
into_bytes(chars) ==
    IF chars = <<>> THEN <<>> ELSE Utf8(Head(chars)) \o into_bytes(Tail(chars))

\* create_closed_syllable: consonant, vowel, consonant
create_closed_syllable ==
    {<<c1, v, c2>> : c1 \in choose_random_consonant, v \in choose_random_vowel,
                     c2 \in choose_random_consonant}

\* create_open_syllable: consonant, vowel
create_open_syllable_no_vowel == {<<c>> : c \in choose_random_consonant}
create_open_syllable ==
    {<<c, v>> : c \in choose_random_consonant, v \in choose_random_vowel}

\* Distribution<SyllableType>::sample: gen_range(0..=1), 0 is CLOSED, the rest OPEN
SyllableType == {"CLOSED", "OPEN"}
SampleSyllableType(r) == IF r = 0 THEN "CLOSED" ELSE "OPEN"

\* Exclusive end of the loop `for index in 0..(length - 1)`.
LoopEndOffByOne(len) == len
LoopEnd(len) == len - 1

\* Whether iteration `index` of the loop adds a vowel (TRUE) or a consonant.
AddsVowelFlipped(st, idx) == IF st THEN idx % 2 = 0 ELSE idx % 2 /= 0
AddsVowel(st, idx) == IF st THEN idx % 2 /= 0 ELSE idx % 2 = 0

(***************************************************************************)
(* generate_simple_username                                                *)
(***************************************************************************)
UserInit ==
    /\ upc = "call"
    /\ fn \in {"simple", "complex"}
    /\ capitalize \in BOOLEAN
    /\ length \in 0..(IF fn = "simple" THEN MaxLength ELSE MaxSyllables)
    /\ start = FALSE
    /\ index = 0
    /\ output = <<>>
    /\ result = <<>>

\* if length == 0 { return Vec::<u8>::new(); }
SimpleEmpty ==
    /\ upc = "call" /\ fn = "simple" /\ length = 0
    /\ result' = <<>>
    /\ upc' = "done"
    /\ UNCHANGED <<fn, capitalize, length, start, index, output>>
    /\ UNCHANGED <<cvars, mvars>>

\* The coin flip and the first character.
SimpleFirst ==
    /\ upc = "call" /\ fn = "simple" /\ length /= 0
    /\ \E st \in BOOLEAN :
         /\ start' = st
         /\ \E c \in (IF st THEN choose_random_vowel ELSE choose_random_consonant) :
              output' = Append(output, c)
    /\ upc' = "check1"
    /\ UNCHANGED <<fn, capitalize, length, index, result>>
    /\ UNCHANGED <<cvars, mvars>>

\* if length == 1 { return output...into_bytes(); }
SimpleReturnOne ==
    /\ upc = "check1" /\ fn = "simple" /\ length = 1
    /\ result' = into_bytes(output)
    /\ upc' = "done"
    /\ UNCHANGED <<fn, capitalize, length, start, index, output>>
    /\ UNCHANGED <<cvars, mvars>>

\* One iteration of `for index in 0..(length - 1)`.
SimpleLoopStep ==
    /\ upc \in {"check1", "loop"} /\ fn = "simple" /\ length /= 1
    /\ index < LoopEnd(length)
    /\ \E c \in (IF AddsVowel(start, index)
                 THEN choose_random_vowel ELSE choose_random_consonant) :
         output' = Append(output, c)
    /\ index' = index + 1
    /\ upc' = "loop"
    /\ UNCHANGED <<fn, capitalize, length, start, result>>
    /\ UNCHANGED <<cvars, mvars>>

\* After the loop: capitalize, collect, return.
SimpleFinish ==
    /\ upc \in {"check1", "loop"} /\ fn = "simple" /\ length /= 1
    /\ index >= LoopEnd(length)
    /\ output' = CapitalizeFirst(capitalize, output)
    /\ result' = into_bytes(output')
    /\ upc' = "done"
    /\ UNCHANGED <<fn, capitalize, length, start, index>>
    /\ UNCHANGED <<cvars, mvars>>

(***************************************************************************)
(* generate_complex_username                                               *)
(***************************************************************************)
\* if length == 0 { return Vec::<u8>::new(); }
ComplexEmpty ==
    /\ upc = "call" /\ fn = "complex" /\ length = 0
    /\ result' = <<>>
    /\ upc' = "done"
    /\ UNCHANGED <<fn, capitalize, length, start, index, output>>
    /\ UNCHANGED <<cvars, mvars>>

\* One iteration of `for _ in 0..length`: a random syllable of a random type.
ComplexSyllable ==
    /\ upc \in {"call", "loop"} /\ fn = "complex" /\ length /= 0
    /\ index < length
    /\ \E r \in 0..1 :
         \E syllable \in (IF SampleSyllableType(r) = "CLOSED"
                          THEN create_closed_syllable ELSE create_open_syllable) :
            output' = output \o syllable
    /\ index' = index + 1
    /\ upc' = "loop"
    /\ UNCHANGED <<fn, capitalize, length, start, result>>
    /\ UNCHANGED <<cvars, mvars>>

\* After the loop: capitalize, collect, return.
ComplexFinish ==
    /\ upc = "loop" /\ fn = "complex"
    /\ index >= length
    /\ output' = CapitalizeFirst(capitalize, output)
    /\ result' = into_bytes(output')
    /\ upc' = "done"
    /\ UNCHANGED <<fn, capitalize, length, start, index>>
    /\ UNCHANGED <<cvars, mvars>>

UserNext ==
    \/ SimpleEmpty \/ SimpleFirst \/ SimpleReturnOne \/ SimpleLoopStep \/ SimpleFinish
    \/ ComplexEmpty \/ ComplexSyllable \/ ComplexFinish



(***************************************************************************)
(* src/config.rs: the command line of `generate markov`.                   *)
(*                                                                         *)
(* A command line is a set of switches, each passed at most once, the      *)
(* value-taking ones with a raw token (a sequence of code points).  clap   *)
(* parses a value as it meets it, checks the argument groups once the      *)
(* whole line is read, and fills in the defaults of what was not passed.   *)
(***************************************************************************)

None == <<>>
Some(v) == <<v>>

\* Raw tokens: "0", "3", "5", "12", "x", "0.0", "0.5", "w.t"
Tok0 == <<48>>
Tok3 == <<51>>
Tok5 == <<53>>
Tok12 == <<49, 50>>
TokX == <<120>>
Tok0p0 == <<48, 46, 48>>
Tok0p5 == <<48, 46, 53>>
TokPath == <<119, 46, 116>>

IsDigits(s) == s /= <<>> /\ \A i \in 1..Len(s) : s[i] >= 48 /\ s[i] <= 57

RECURSIVE DigitsValue(_)
DigitsValue(s) ==
    IF s = <<>> THEN 0
    ELSE 10 * DigitsValue(SubSeq(s, 1, Len(s) - 1)) + (s[Len(s)] - 48)

Ok(v) == <<"Ok", v>>
Err == <<"Err">>

\* usize's FromStr: decimal digits
ParseUsize(s) == IF IsDigits(s) THEN Ok(DigitsValue(s)) ELSE Err

\* f64's FromStr on <digits>.<d>, the value in tenths
ParseF64(s) ==
    IF Len(s) >= 3 /\ s[Len(s) - 1] = 46
          /\ IsDigits(SubSeq(s, 1, Len(s) - 2)) /\ IsDigits(<<s[Len(s)]>>)
    THEN Ok(10 * DigitsValue(SubSeq(s, 1, Len(s) - 2)) + (s[Len(s)] - 48))
    ELSE Err

\* PathBuf's value parser: any token
ParsePath(s) == Ok(s)

\* The action of Markov's `capitalize` argument.
CapitalizeActionSetTrue == "SetTrue"
CapitalizeAction == "SetFalse"

\* default_value of LengthRange::maximum: "10"
MaximumDefaultOne == Some(<<49>>)
MaximumDefault == Some(<<49, 48>>)

\* The arguments `generate markov` accepts: the fields of
\* GenerateCommands::Markov with its flattened groups, and the global
\* Verbosity flags.
Args ==
    [capitalize    |-> [switch |-> "-C", long |-> "no-capitalize",
                        action |-> CapitalizeAction, type |-> "bool", default |-> None],
     path          |-> [switch |-> "-i", long |-> "input",
                        action |-> "Set", type |-> "PathBuf", default |-> None],
     minimum       |-> [switch |-> "-m", long |-> "min",
                        action |-> "Set", type |-> "usize", default |-> Some(<<50>>)],
     maximum       |-> [switch |-> "-M", long |-> "max",
                        action |-> "Set", type |-> "usize", default |-> MaximumDefault],
     order         |-> [switch |-> "-o", long |-> "order",
                        action |-> "Set", type |-> "usize", default |-> Some(<<51>>)],
     prior         |-> [switch |-> "-p", long |-> "prior",
                        action |-> "Set", type |-> "f64", default |-> Some(Tok0p0)],
     backoff       |-> [switch |-> "-b", long |-> "backoff",
                        action |-> "SetTrue", type |-> "bool", default |-> None],
     no_cache      |-> [switch |-> "-N", long |-> "no-cache",
                        action |-> "SetTrue", type |-> "bool", default |-> None],
     rebuild_cache |-> [switch |-> "-R", long |-> "rebuild-cache",
                        action |-> "SetTrue", type |-> "bool", default |-> None],
     count         |-> [switch |-> "<count>", long |-> "",
                        action |-> "Set", type |-> "usize", default |-> None],
     debug         |-> [switch |-> "-d", long |-> "debug",
                        action |-> "SetTrue", type |-> "bool", default |-> None],
     verbose       |-> [switch |-> "-v", long |-> "verbose",
                        action |-> "SetTrue", type |-> "bool", default |-> None],
     quiet         |-> [switch |-> "-q", long |-> "quiet",
                        action |-> "SetTrue", type |-> "bool", default |-> None]]

Fields == DOMAIN Args

\* #[group(multiple = ...)] of CacheControl
CacheControlMultipleAllowed == TRUE
CacheControlMultiple == FALSE

\* The argument groups: #[derive(Args)] #[group(multiple = ...)]
Groups ==
    [Verbosity       |-> [multiple |-> FALSE, members |-> {"debug", "verbose", "quiet"}],
     LengthRange     |-> [multiple |-> TRUE, members |-> {"minimum", "maximum"}],
     ModelParameters |-> [multiple |-> TRUE, members |-> {"order", "prior", "backoff"}],
     CacheControl    |-> [multiple |-> CacheControlMultiple,
                          members |-> {"no_cache", "rebuild_cache"}]]

\* The tokens the model passes for each value-taking argument.
Tokens(f) ==
    CASE f = "path" -> {TokPath}
      [] f = "minimum" -> {Tok0, Tok5, TokX}
      [] f = "maximum" -> {Tok0, Tok3, Tok12}
      [] f = "order" -> {Tok0, Tok5}
      [] f = "prior" -> {Tok0p5, TokX}
      [] f = "count" -> {Tok3}
      [] OTHER -> {}

\* The value parser clap derives from the field's type.
ValueParser(type, tok) ==
    CASE type = "usize" -> ParseUsize(tok)
      [] type = "f64" -> ParseF64(tok)
      [] type = "PathBuf" -> ParsePath(tok)

\* What a flag's field holds: SetTrue is true when passed, SetFalse false.
FlagValue(action, present) == IF action = "SetTrue" THEN present ELSE ~present

\* Whether the field is an Option<T> (no default: None when not passed).
IsOption(f) == f \in {"path", "count"}

\* A group with multiple = false of which more than one member was passed.
GroupConflict(g) ==
    /\ ~Groups[g].multiple
    /\ Cardinality({f \in Groups[g].members : Args[f].switch \in passed}) > 1

\* The value of field f once the line is read.
FieldValue(f) ==
    IF Args[f].type = "bool" THEN FlagValue(Args[f].action, Args[f].switch \in passed)
    ELSE IF matches[f] /= None THEN (IF IsOption(f) THEN matches[f] ELSE matches[f][1])
    ELSE IF Args[f].default /= None
         THEN ValueParser(Args[f].type, Args[f].default[1])[2]
    ELSE None

CliInit ==
    /\ cpc = "parsing"
    /\ passed = {}
    /\ matches = [f \in Fields |-> None]
    /\ config = None
    /\ cerror = "none"

\* A flag (ArgAction::SetTrue or SetFalse) is met.
PassFlag ==
    /\ cpc = "parsing"
    /\ \E f \in Fields :
         /\ Args[f].type = "bool"
         /\ Args[f].switch \notin passed
         /\ passed' = passed \cup {Args[f].switch}
    /\ UNCHANGED <<cpc, matches, config, cerror>>
    /\ UNCHANGED <<uvars, mvars>>

\* A value-taking argument is met and its token parses.
PassValue ==
    /\ cpc = "parsing"
    /\ \E f \in Fields :
         /\ Args[f].type /= "bool"
         /\ Args[f].switch \notin passed
         /\ \E tok \in Tokens(f) :
              /\ ValueParser(Args[f].type, tok) /= Err
              /\ matches' = [matches EXCEPT ![f] = Some(ValueParser(Args[f].type, tok)[2])]
         /\ passed' = passed \cup {Args[f].switch}
    /\ UNCHANGED <<cpc, config, cerror>>
    /\ UNCHANGED <<uvars, mvars>>

\* A value-taking argument is met and its token does not parse.
PassBadValue ==
    /\ cpc = "parsing"
    /\ \E f \in Fields :
         /\ Args[f].type /= "bool"
         /\ Args[f].switch \notin passed
         /\ \E tok \in Tokens(f) : ValueParser(Args[f].type, tok) = Err
         /\ passed' = passed \cup {Args[f].switch}
    /\ cpc' = "rejected"
    /\ cerror' = "ValueValidation"
    /\ UNCHANGED <<matches, config>>
    /\ UNCHANGED <<uvars, mvars>>

\* The line is read and some exclusive group has two members on it.
FinishConflict ==
    /\ cpc = "parsing"
    /\ \E g \in DOMAIN Groups : GroupConflict(g)
    /\ cpc' = "rejected"
    /\ cerror' = "ArgumentConflict"
    /\ UNCHANGED <<passed, matches, config>>
    /\ UNCHANGED <<uvars, mvars>>

\* The line is read and valid: the struct is built, defaults filled in.
FinishAccept ==
    /\ cpc = "parsing"
    /\ \A g \in DOMAIN Groups : ~GroupConflict(g)
    /\ config' = [f \in Fields |-> FieldValue(f)]
    /\ cpc' = "accepted"
    /\ UNCHANGED <<passed, matches, cerror>>
    /\ UNCHANGED <<uvars, mvars>>

CliNext == PassFlag \/ PassValue \/ PassBadValue \/ FinishConflict \/ FinishAccept

(***************************************************************************)
(* The Markov subcommand: validation, corpus, cache, training, generation. *)
(*                                                                         *)
(* The engine is specified, not part of the sources at hand: the pipeline  *)
(* below follows sections 4.1, 4.4, 4.5 and 7 of the specification.  The   *)
(* Sampler is abstracted to what every trained chain can do: draw some     *)
(* symbol of the alphabet or the end-of-word sentinel.                     *)
(***************************************************************************)

\* Largest minimum / maximum word length passed.
MaxWordLen == 5
\* Largest count passed.
MaxCount == 2
\* The retry budget of the word generator (fixed, its value left open).
RetryBudget == 2

\* The symbols of the training alphabet ('a', 'b'); the sentinel is apart.
Alphabet == {97, 98}

\* InvalidRangeError: min > max, or max == 0
InvalidRangeMinOnly(min, max) == min > max
InvalidRange(min, max) == min > max \/ max = 0

\* The cache policy the two flags select.
Policy(flags) ==
    IF flags.no_cache THEN "Bypass"
    ELSE IF flags.rebuild_cache THEN "ForceRebuild"
    ELSE "UseOrBuild"

\* Exit code: 0 on success, distinct nonzero codes per error.
ExitCode(err) ==
    CASE err = "none" -> 0
      [] err = "IoError" -> 1
      [] err = "EmptyCorpusError" -> 2
      [] err = "InvalidRangeError" -> 3

\* A drawn sentinel ends the word when its length is within [min, max].
SentinelEndsAlways(len, min, max) == TRUE
SentinelEnds(len, min, max) == len >= min /\ len <= max

\* The first symbol is uppercased when capitalize is set.
Capitalized(cap, w) ==
    IF cap /\ w /= <<>> THEN [w EXCEPT ![1] = make_ascii_uppercase(w[1])] ELSE w

MarkovInit ==
    /\ mpc = "validate"
    /\ mmin \in 0..MaxWordLen
    /\ mmax \in 0..MaxWordLen
    /\ mflags \in {fl \in [no_cache : BOOLEAN, rebuild_cache : BOOLEAN,
                           capitalize : BOOLEAN] :
                     ~(fl.no_cache /\ fl.rebuild_cache)}
    /\ mleft \in 1..MaxCount
    /\ corpus \in {"missing", "empty", "ok"}
    /\ cache \in {"absent", "corrupt", "valid"}
    /\ io = <<>>
    /\ merror = "none"
    /\ word = <<>>
    /\ retries = 0
    /\ forced = FALSE
    /\ lastWord = <<>>

\* Argument validation: an invalid range is fatal, reported first.
ValidateFail ==
    /\ mpc = "validate"
    /\ InvalidRange(mmin, mmax)
    /\ merror' = "InvalidRangeError"
    /\ mpc' = "exit"
    /\ UNCHANGED <<mmin, mmax, mflags, mleft, corpus, cache, io, word, retries,
                   forced, lastWord>>
    /\ UNCHANGED <<uvars, cvars>>

ValidateOk ==
    /\ mpc = "validate"
    /\ ~InvalidRange(mmin, mmax)
    /\ mpc' = "load"
    /\ UNCHANGED <<mmin, mmax, mflags, mleft, corpus, cache, io, merror, word,
                   retries, forced, lastWord>>
    /\ UNCHANGED <<uvars, cvars>>

\* CorpusSource: IoError when unreadable, EmptyCorpusError when empty.
LoadCorpus ==
    /\ mpc = "load"
    /\ io' = Append(io, "read_corpus")
    /\ merror' = CASE corpus = "missing" -> "IoError"
                   [] corpus = "empty" -> "EmptyCorpusError"
                   [] OTHER -> "none"
    /\ mpc' = IF corpus = "ok" THEN "cache" ELSE "exit"
    /\ UNCHANGED <<mmin, mmax, mflags, mleft, corpus, cache, word, retries,
                   forced, lastWord>>
    /\ UNCHANGED <<uvars, cvars>>

\* ModelCache, no_cache or rebuild_cache: the stored entry is not read.
CacheSkip ==
    /\ mpc = "cache"
    /\ Policy(mflags) \in {"Bypass", "ForceRebuild"}
    /\ mpc' = "train"
    /\ UNCHANGED <<mmin, mmax, mflags, mleft, corpus, cache, io, merror, word,
                   retries, forced, lastWord>>
    /\ UNCHANGED <<uvars, cvars>>

\* ModelCache, default: use a readable entry; a missing or corrupt one is a miss.
CacheLookup ==
    /\ mpc = "cache"
    /\ Policy(mflags) = "UseOrBuild"
    /\ io' = Append(io, "read_cache")
    /\ mpc' = IF cache = "valid" THEN "word" ELSE "train"
    /\ UNCHANGED <<mmin, mmax, mflags, mleft, corpus, cache, merror, word,
                   retries, forced, lastWord>>
    /\ UNCHANGED <<uvars, cvars>>

\* NGramModel training of the back-off chain.
Train ==
    /\ mpc = "train"
    /\ io' = Append(io, "train")
    /\ mpc' = IF Policy(mflags) = "Bypass" THEN "word" ELSE "store"
    /\ UNCHANGED <<mmin, mmax, mflags, mleft, corpus, cache, merror, word,
                   retries, forced, lastWord>>
    /\ UNCHANGED <<uvars, cvars>>

\* The trained chain replaces the stored entry; a failed write is swallowed.
StoreCache ==
    /\ mpc = "store"
    /\ io' = Append(io, "write_cache")
    /\ \E written \in BOOLEAN : cache' = IF written THEN "valid" ELSE cache
    /\ mpc' = "word"
    /\ UNCHANGED <<mmin, mmax, mflags, mleft, corpus, merror, word, retries,
                   forced, lastWord>>
    /\ UNCHANGED <<uvars, cvars>>

\* The Sampler draws a symbol; the word is forced to end when it reaches max.
DrawSymbol ==
    /\ mpc = "word"
    /\ \E sym \in Alphabet : word' = Append(word, sym)
    /\ IF Len(word') >= mmax
       THEN /\ lastWord' = Capitalized(mflags.capitalize, word')
            /\ mpc' = "emitted"
       ELSE UNCHANGED <<lastWord, mpc>>
    /\ UNCHANGED <<mmin, mmax, mflags, mleft, corpus, cache, io, merror, retries,
                   forced>>
    /\ UNCHANGED <<uvars, cvars>>

\* The Sampler draws the sentinel with the length in range: the word ends.
DrawSentinelEnd ==
    /\ mpc = "word"
    /\ ~forced
    /\ SentinelEnds(Len(word), mmin, mmax)
    /\ lastWord' = Capitalized(mflags.capitalize, word)
    /\ mpc' = "emitted"
    /\ UNCHANGED <<mmin, mmax, mflags, mleft, corpus, cache, io, merror, word,
                   retries, forced>>
    /\ UNCHANGED <<uvars, cvars>>

\* The sentinel is drawn before min: the partial word is discarded and the
\* word restarts, until the retry budget is spent.
DrawSentinelRetry ==
    /\ mpc = "word"
    /\ ~forced
    /\ ~SentinelEnds(Len(word), mmin, mmax)
    /\ word' = <<>>
    /\ IF retries < RetryBudget
       THEN retries' = retries + 1 /\ UNCHANGED forced
       ELSE forced' = TRUE /\ UNCHANGED retries
    /\ UNCHANGED <<mmin, mmax, mflags, mleft, corpus, cache, io, merror, mpc,
                   lastWord>>
    /\ UNCHANGED <<uvars, cvars>>

\* The budget is spent: a drawn sentinel is passed over, the word runs to max.
DrawSentinelForced ==
    /\ mpc = "word"
    /\ forced
    /\ UNCHANGED mvars
    /\ UNCHANGED <<uvars, cvars>>

\* The word is written out; the next one starts afresh, or the command ends.
NextWord ==
    /\ mpc = "emitted"
    /\ mleft' = mleft - 1
    /\ word' = <<>>
    /\ retries' = 0
    /\ forced' = FALSE
    /\ lastWord' = <<>>
    /\ mpc' = IF mleft > 1 THEN "word" ELSE "exit"
    /\ UNCHANGED <<mmin, mmax, mflags, corpus, cache, io, merror>>
    /\ UNCHANGED <<uvars, cvars>>

MarkovNext ==
    \/ ValidateFail \/ ValidateOk \/ LoadCorpus \/ CacheSkip \/ CacheLookup
    \/ Train \/ StoreCache \/ DrawSymbol \/ DrawSentinelEnd \/ DrawSentinelRetry
    \/ DrawSentinelForced \/ NextWord

(***************************************************************************)
(* The specifications: one per part of the program, the other parts at     *)
(* rest.                                                                   *)
(***************************************************************************)
UserIdle ==
    /\ upc = "idle" /\ fn = "none" /\ capitalize = FALSE /\ length = 0
    /\ start = FALSE /\ index = 0 /\ output = <<>> /\ result = <<>>

MarkovIdle ==
    /\ mpc = "idle" /\ mmin = 0 /\ mmax = 0
    /\ mflags = [no_cache |-> FALSE, rebuild_cache |-> FALSE, capitalize |-> FALSE]
    /\ mleft = 0 /\ corpus = "ok" /\ cache = "absent" /\ io = <<>>
    /\ merror = "none" /\ word = <<>> /\ retries = 0 /\ forced = FALSE
    /\ lastWord = <<>>

\* A username generator is called.
InitUsername == UserInit /\ CliInit /\ MarkovIdle
SpecUsername == InitUsername /\ [][UserNext]_vars

\* A `generate markov` command line is parsed.
InitCli == UserIdle /\ CliInit /\ MarkovIdle
SpecCli == InitCli /\ [][CliNext]_vars

\* The Markov subcommand runs on a parsed configuration.
InitMarkov == UserIdle /\ CliInit /\ MarkovInit
SpecMarkov == InitMarkov /\ [][MarkovNext]_vars

(***************************************************************************)
(* What the tests read off a result.                                       *)
(***************************************************************************)
RECURSIVE CharCount(_)
\* from_utf8(&bytes).unwrap().chars().count(): bytes that start a character
CharCount(bytes) ==
    IF bytes = <<>> THEN 0
    ELSE (IF Head(bytes) \div 64 = 2 THEN 0 ELSE 1) + CharCount(Tail(bytes))

ToAsciiLower(b) == IF b >= 65 /\ b <= 90 THEN b + 32 ELSE b
IsVowel(b) == \E i \in 1..Len(VOWELS) : VOWELS[i] = ToAsciiLower(b)
IsConsonant(b) == \E i \in 1..Len(CONSONANTS) : CONSONANTS[i] = ToAsciiLower(b)

\* C1: generate_simple_username(capitalize, n) returns exactly n characters,
\* the empty string for n = 0.
C1_SimpleLength ==
    (upc = "done" /\ fn = "simple") =>
        /\ CharCount(result) = length
        /\ (length = 0 => result = <<>>)

C1_Witness ==
    upc = "done" /\ fn = "simple" /\ length = MaxLength /\ capitalize
        /\ Len(result) = MaxLength

\* C2: generate_complex_username(capitalize, n) returns between 2n and 3n
\* characters, the empty string for n = 0.
C2_ComplexLength ==
    (upc = "done" /\ fn = "complex") =>
        /\ 2 * length <= CharCount(result)
        /\ CharCount(result) <= 3 * length
        /\ (length = 0 => result = <<>>)

C2_Witness ==
    upc = "done" /\ fn = "complex" /\ length >= 2
        /\ CharCount(result) > 2 * length /\ CharCount(result) < 3 * length

\* C3: in a simple username of length >= 2 vowels and consonants strictly
\* alternate: of any two adjacent characters exactly one is a vowel and the
\* other a consonant, case-insensitively.
C3_Alternates ==
    (upc = "done" /\ fn = "simple" /\ length >= 2) =>
        \A i \in 1..(Len(result) - 1) :
            \/ IsVowel(result[i]) /\ ~IsConsonant(result[i])
                 /\ IsConsonant(result[i + 1]) /\ ~IsVowel(result[i + 1])
            \/ IsConsonant(result[i]) /\ ~IsVowel(result[i])
                 /\ IsVowel(result[i + 1]) /\ ~IsConsonant(result[i + 1])

C3_Witness ==
    upc = "done" /\ fn = "simple" /\ length >= 3 /\ capitalize /\ start
        /\ Len(result) = length /\ result[1] < 97

(***************************************************************************)
(* The command line of `generate markov`.                                  *)
(***************************************************************************)
\* C4: --no-cache (-N) and --rebuild-cache (-R) are mutually exclusive: a
\* line passing both is never accepted, no accepted configuration has both
\* set, and the two flags cause no other rejection (a line is rejected only
\* when it passes both, passes two verbosity flags or an unparsable value).
C4_CacheFlagsExclusive ==
    /\ ({"-N", "-R"} \subseteq passed) => cpc /= "accepted"
    /\ cpc = "accepted" => ~(config.no_cache /\ config.rebuild_cache)
    /\ cpc = "rejected" =>
          \/ {"-N", "-R"} \subseteq passed
          \/ Cardinality({"-d", "-v", "-q"} \cap passed) > 1
          \/ cerror = "ValueValidation"

C4_Witness ==
    cpc = "rejected" /\ cerror = "ArgumentConflict"
        /\ {"-N", "-R"} \subseteq passed /\ {"-d", "-v", "-q"} \cap passed = {}

\* C5 as stated: capitalize is set exactly when -C is passed.
C5_CapitalizeSetByFlag ==
    cpc = "accepted" => (config.capitalize <=> "-C" \in passed)

\* C5 amended: -C is --no-capitalize; capitalize is set exactly when -C is
\* not passed.
C5_CapitalizeClearedByFlag ==
    cpc = "accepted" => (config.capitalize <=> "-C" \notin passed)

C5_Witness ==
    cpc = "accepted" /\ "-C" \in passed /\ config.capitalize = FALSE

\* C6: with none of its options the configuration is minimum 2, maximum 10,
\* order 3, prior 0.0, backoff, no_cache and rebuild_cache false and no input
\* path; an option that is passed leaves every other field at its default.
C6_Defaults ==
    cpc = "accepted" =>
        /\ "-m" \notin passed => config.minimum = 2
        /\ "-M" \notin passed => config.maximum = 10
        /\ "-o" \notin passed => config.order = 3
        /\ "-p" \notin passed => config.prior = 0
        /\ "-b" \notin passed => config.backoff = FALSE
        /\ "-N" \notin passed => config.no_cache = FALSE
        /\ "-R" \notin passed => config.rebuild_cache = FALSE
        /\ "-i" \notin passed => config.path = <<>>
        /\ "-m" \in passed => config.minimum \in {0, 5}
        /\ "-M" \in passed => config.maximum \in {0, 3, 12}
        /\ "-o" \in passed => config.order \in {0, 5}
        /\ "-p" \in passed => config.prior = 5
        /\ "-b" \in passed => config.backoff = TRUE
        /\ "-N" \in passed => config.no_cache = TRUE
        /\ "-R" \in passed => config.rebuild_cache = TRUE
        /\ "-i" \in passed => config.path = <<(<<119, 46, 116>>)>>

C6_Witness ==
    cpc = "accepted" /\ passed = {"-m"} /\ config.minimum = 5
        /\ config.maximum = 10 /\ config.order = 3

(***************************************************************************)
(* The Markov subcommand.                                                  *)
(***************************************************************************)
\* C7: an invocation whose range is invalid (min > max, or max = 0) exits
\* nonzero with InvalidRangeError at its first step, with no corpus read,
\* cache read, training or cache write before it.
C7_InvalidRangeFailsFast ==
    (mmin > mmax \/ mmax = 0) =>
        /\ io = <<>>
        /\ mpc \in {"validate", "exit"}
        /\ mpc = "exit" => merror = "InvalidRangeError" /\ ExitCode(merror) /= 0

C7_Witness ==
    mpc = "exit" /\ mmin = 5 /\ mmax = 3 /\ merror = "InvalidRangeError"
        /\ cache = "absent" /\ io = <<>>

\* C8: every emitted word has min <= length <= max.
C8_WordLengthInRange ==
    mpc = "emitted" => mmin <= Len(lastWord) /\ Len(lastWord) <= mmax

C8_Witness ==
    mpc = "emitted" /\ forced /\ retries = RetryBudget /\ mmin >= 2
        /\ Len(lastWord) = mmax
====
